---- MODULE Spec2Model ----
(***************************************************************************)
(* A model of api_using_http_lib.go: main's startup sequence (godotenv,    *)
(* port resolution, route registration, ListenAndServe) and the two        *)
(* handlers, healthHandler and processHandler, each invocation running as  *)
(* its own goroutine whose steps interleave with the others'.              *)
(*                                                                         *)
(* What a handler writes to its http.ResponseWriter is recorded in the     *)
(* invocation: the status, the Content-Type, and the body.  A body written *)
(* by http.Error is one line of text (Fprintln of the message); a body     *)
(* written by json.Encoder.Encode is one JSON object, kept as the list of  *)
(* its members in the order the encoder emits them.                        *)
(***************************************************************************)
EXTENDS Integers, Sequences, FiniteSets, Bags, TLC

VARIABLES pc, env, dotenv, port, routes, log, listenErr, inflight

vars == <<pc, env, dotenv, port, routes, log, listenErr, inflight>>

\* ------------------------------------------------------------------ bounds

\* The number of requests the server handles at the same time.
MaxInFlight == 2

\* ------------------------------------------------------- program constants

StatusOK == 200
StatusBadRequest == 400
StatusMethodNotAllowed == 405

MethodPost == "POST"

DefaultPort == "8080"
DefaultSecret == "Default secret (env var not set)"

AppPortKey == "APP_PORT"
SecretKey == "API_SECRET_MESSAGE"
AnotherKey == "ANOTHER_CONFIG_VALUE"

EnvKeys == {AppPortKey, SecretKey, AnotherKey}

\* ---------------------------------------------------------- environment

\* A variable of the process environment is unset (<<>>) or set to a string
\* (<<v>>), which may be the empty string.
Unset == <<>>
SetTo(v) == <<v>>

\* os.Getenv: the value of the variable, "" when it is unset.
Getenv(e, k) == IF e[k] = Unset THEN "" ELSE e[k][1]

\* The environments the process may be started in.
EnvValues(k) ==
  CASE k = AppPortKey -> {Unset, SetTo(""), SetTo("9090")}
    [] k = SecretKey  -> {Unset, SetTo(""), SetTo("hunter2")}
    [] k = AnotherKey -> {Unset, SetTo("extra")}

Environments == {e \in [EnvKeys -> UNION {EnvValues(k) : k \in EnvKeys}] :
                   \A k \in EnvKeys : e[k] \in EnvValues(k)}

\* The .env file of the working directory: absent, or a list of assignments
\* (a key the file does not assign is Unset in it).
NoFile == <<>>
EnvFile == [k \in EnvKeys |->
              CASE k = AppPortKey -> SetTo("7070")
                [] k = SecretKey  -> SetTo("from .env")
                [] k = AnotherKey -> Unset]
DotenvFiles == {NoFile, <<EnvFile>>}

\* godotenv.Load: an error when the file cannot be read; otherwise every key
\* the file assigns and the environment does not already hold is set (a key
\* that is set, even to "", is not overridden).
LoadFails(file) == file = NoFile
LoadedEnv(e, file) ==
  IF LoadFails(file) THEN e
  ELSE [k \in EnvKeys |-> IF e[k] = Unset THEN file[1][k] ELSE e[k]]

\* main, lines 91-94.
PortWithoutDefault(e) == Getenv(e, AppPortKey)
ResolvePort(e) ==
  IF Getenv(e, AppPortKey) = "" THEN DefaultPort ELSE Getenv(e, AppPortKey)

\* main, lines 97-102: the value is logged and used for nothing else.
AnotherConfigLine(e) ==
  IF Getenv(e, AnotherKey) # ""
    THEN "Loaded another config: " \o Getenv(e, AnotherKey)
    ELSE "ANOTHER_CONFIG_VALUE not found in environment."

\* main, lines 85-88: a failed load is logged as a warning, and main goes on.
LoadWarning ==
  "Warning: Could not load .env file. Using environment variables if set directly."
PcAfterLoadFatal(failed) == IF failed THEN "exited" ELSE "port"
PcAfterLoad(failed) == "port"

\* main, line 114.
ListenAddr(p) == ":" \o p

\* ------------------------------------------------------------------- JSON

\* A JSON value.  A number literal is an integer literal that fits Go's int
\* (integral) or any other number literal, such as 1.5 or 1e400 (not integral).
JNull == [t |-> "null", s |-> "", n |-> 0, integral |-> FALSE, members |-> <<>>]
JString(str) == [JNull EXCEPT !.t = "string", !.s = str]
JInt(i) == [JNull EXCEPT !.t = "number", !.n = i, !.integral = TRUE]
JFraction(i) == [JNull EXCEPT !.t = "number", !.n = i]
JArray == [JNull EXCEPT !.t = "array"]
JObject(ms) == [JNull EXCEPT !.t = "object", !.members = ms]

\* The object a member list denotes: each key with its last value.
Keys(ms) == {ms[i][1] : i \in 1..Len(ms)}
LastIndex(ms, k) == CHOOSE i \in 1..Len(ms) :
                      ms[i][1] = k /\ \A j \in (i+1)..Len(ms) : ms[j][1] # k
ObjectOf(ms) == [k \in Keys(ms) |-> ms[LastIndex(ms, k)][2]]

\* ASCII case folding, as encoding/json matches an object key to a field.
UpperCase == "ABCDEFGHIJKLMNOPQRSTUVWXYZ"
LowerCase == "abcdefghijklmnopqrstuvwxyz"
Letters == 1..Len(UpperCase)
FoldTable ==
  [c \in {SubSeq(UpperCase, i, i) : i \in Letters} |->
     LET i == CHOOSE i \in Letters : SubSeq(UpperCase, i, i) = c
     IN  SubSeq(LowerCase, i, i)]
LowerChar(c) == IF c \in DOMAIN FoldTable THEN FoldTable[c] ELSE c
RECURSIVE ToLower(_)
ToLower(str) ==
  IF Len(str) = 0 THEN ""
  ELSE LowerChar(SubSeq(str, 1, 1)) \o ToLower(SubSeq(str, 2, Len(str)))

\* --------------------------------------------------------------- the types

\* type ProcessInput, lines 14-17, and its zero value (var input, line 48).
ProcessInput(name, value) == [Name |-> name, Value |-> value]
ZeroInput == ProcessInput("", 0)

\* The struct field a JSON key names, by the json tags of lines 15-16:
\* "" for a key that names no field (such a member is skipped).
FieldOf(key) ==
  LET folded == ToLower(key)
  IN  CASE folded = "name"  -> "Name"
        [] folded = "value" -> "Value"
        [] OTHER -> ""

\* The Go type of a field of ProcessInput.
FieldType(field) == IF field = "Name" THEN "string" ELSE "int"

UnmarshalTypeError(j, field) ==
  "json: cannot unmarshal " \o j.t \o " into Go struct field ProcessInput."
     \o ToLower(field) \o " of type " \o FieldType(field)

\* Storing one member into the struct: [input, err].  null leaves the field
\* as it is; a value of the wrong JSON type leaves it and reports an error.
AcceptsAnything(field, j) == TRUE
Accepts(field, j) ==
  IF field = "Name" THEN j.t = "string" ELSE j.t = "number" /\ j.integral
SetField(in, field, j) ==
  CASE field = ""       -> [input |-> in, err |-> ""]
    [] j.t = "null"     -> [input |-> in, err |-> ""]
    [] ~Accepts(field, j) -> [input |-> in, err |-> UnmarshalTypeError(j, field)]
    [] field = "Name"   -> [input |-> [in EXCEPT !.Name = j.s], err |-> ""]
    [] OTHER            -> [input |-> [in EXCEPT !.Value = j.n], err |-> ""]

\* The members of an object are stored in order; decoding goes on after a
\* type error and reports the first one.
RECURSIVE UnmarshalMembers(_, _, _)
UnmarshalMembers(ms, i, acc) ==
  IF i > Len(ms) THEN acc
  ELSE LET r == SetField(acc.input, FieldOf(ms[i][1]), ms[i][2])
       IN  UnmarshalMembers(ms, i + 1,
             [input |-> r.input, err |-> IF acc.err # "" THEN acc.err ELSE r.err])

Unmarshal(j, in) ==
  CASE j.t = "null"   -> [input |-> in, err |-> ""]
    [] j.t = "object" -> UnmarshalMembers(j.members, 1, [input |-> in, err |-> ""])
    [] OTHER -> [input |-> in,
                 err |-> "json: cannot unmarshal " \o j.t
                           \o " into Go value of type main.ProcessInput"]

\* A request body: no bytes at all, bytes that are not JSON, or the text of
\* one JSON value.
EmptyBody == [kind |-> "empty", text |-> "", value |-> JNull]
TextBody(txt) == [kind |-> "text", text |-> txt, value |-> JNull]
JsonBody(j) == [kind |-> "json", text |-> "", value |-> j]

\* json.NewDecoder(r.Body).Decode(&input), lines 49-50: [input, err], err = ""
\* for a nil error.
Decode(body, in) ==
  CASE body.kind = "empty" -> [input |-> in, err |-> "EOF"]
    [] body.kind = "text"  ->
         [input |-> in,
          err |-> "invalid character '" \o SubSeq(body.text, 1, 1)
                    \o "' looking for beginning of value"]
    [] OTHER -> Unmarshal(body.value, in)

\* ------------------------------------------------------------ the requests

Methods == {"GET", MethodPost}
Paths == {"/health", "/process"}

Names == {"", "test"}
Values == {0, 42}

\* The JSON text of a ProcessInput, as a client writes it.
InputJson(name, value) ==
  JObject(<< <<"name", JString(name)>>, <<"value", JInt(value)>> >>)

\* Bodies that decode into a ProcessInput: both fields, no field, and a key
\* in another case beside an unknown key and a null ...
DecodableBodies ==
  {JsonBody(InputJson(n, v)) : n \in Names, v \in Values}
    \cup {JsonBody(JObject(<<>>)),
          JsonBody(JObject(<< <<"Name", JString("test")>>,
                              <<"note", JArray>>,
                              <<"value", JNull>> >>))}

\* ... and bodies that do not: no body, text that is not JSON, a JSON value
\* that is no object, and fields of the wrong type.
UndecodableBodies ==
  {EmptyBody,
   TextBody("not json"),
   JsonBody(JArray),
   JsonBody(JObject(<< <<"name", JString("test")>>, <<"value", JString("42")>> >>)),
   JsonBody(JObject(<< <<"name", JInt(42)>>, <<"value", JFraction(1)>> >>))}

Bodies == DecodableBodies \cup UndecodableBodies

\* Bodies of requests whose body no handler reads: absent, malformed and
\* well-formed.
UnreadBodies == {EmptyBody, TextBody("not json"), JsonBody(InputJson("test", 42))}

Requests ==
  [method : {MethodPost}, path : {"/process"}, body : Bodies]
    \cup [method : Methods \ {MethodPost}, path : {"/process"}, body : UnreadBodies]
    \cup [method : Methods, path : {"/health"}, body : UnreadBodies]

\* ----------------------------------------------------------- the responses

NoBody == [kind |-> "none", line |-> "", members |-> <<>>]
\* What http.Error writes: the message as one line of plain text.
TextLine(msg) == [NoBody EXCEPT !.kind = "text", !.line = msg]
\* What json.NewEncoder(w).Encode writes: one JSON object.
JsonObject(ms) == [NoBody EXCEPT !.kind = "json", !.members = ms]

NoResponse == [status |-> 0, ctype |-> "", body |-> NoBody]

\* http.Error(w, msg, code).
HttpError(msg, code) ==
  [status |-> code, ctype |-> "text/plain; charset=utf-8", body |-> TextLine(msg)]

\* healthHandler, lines 30-35.  Encode writes the keys of a map in sorted
\* order: "message" before "status".
HealthReplyGetOnly(req) ==
  IF req.method = "GET"
    THEN [status |-> StatusOK, ctype |-> "application/json",
          body |-> JsonObject(<< <<"message", JString("API is healthy!")>>,
                                 <<"status", JString("ok")>> >>)]
    ELSE HttpError("Only GET method is allowed", StatusMethodNotAllowed)
HealthReply(req) ==
  [status |-> StatusOK, ctype |-> "application/json",
   body |-> JsonObject(<< <<"message", JString("API is healthy!")>>,
                          <<"status", JString("ok")>> >>)]

\* processHandler, line 42.
MethodAllowedOrGet(method) == method \in {MethodPost, "GET"}
MethodAllowed(method) == method = MethodPost

\* processHandler, lines 61-64.
SecretWithoutFallback(e) == Getenv(e, SecretKey)
SecretMessage(e) ==
  IF Getenv(e, SecretKey) = "" THEN DefaultSecret ELSE Getenv(e, SecretKey)

\* processHandler, line 68.
MessageWithoutPeriod(name) == "Successfully processed input for " \o name
Message(name) == "Successfully processed input for " \o name \o "."

\* processHandler, lines 67-77.  Encode writes the fields of a struct in the
\* order of their declaration (lines 20-25).
ProcessReply(in, secret) ==
  [status |-> StatusOK, ctype |-> "application/json",
   body |-> JsonObject(<< <<"message", JString(Message(in.Name))>>,
                          <<"received_name", JString(in.Name)>>,
                          <<"received_value", JInt(in.Value)>>,
                          <<"secret_from_env", JString(secret)>> >>)]

\* ------------------------------------------------------ handler invocations

\* One call of a handler: the request, the position in the handler, the
\* local variables input and err, what has been written to the
\* ResponseWriter, whether the handler has closed r.Body, and the lines the
\* call has logged.
Invocation(req, at) ==
  [req |-> req, at |-> at, input |-> ZeroInput, err |-> "",
   resp |-> NoResponse, closed |-> FALSE, logged |-> <<>>]

InFlight == BagToSet(inflight)
Running == {inv \in InFlight : inv.at # "done"}
Done == {inv \in InFlight : inv.at = "done"}

Replace(inv, new) == (inflight (-) SetToBag({inv})) (+) SetToBag({new})

\* The variable `input` a call of processHandler reads at lines 58-70: its
\* own (line 48 declares it inside the function).
InputOfAnotherCall(inv, calls) ==
  IF \E o \in calls : o.at = "respond" /\ o.input # inv.input
    THEN (CHOOSE o \in calls : o.at = "respond" /\ o.input # inv.input).input
    ELSE inv.input
InputRead(inv, calls) == inv.input

\* The process environment after a call of processHandler: the handler reads
\* it (os.Getenv, line 61) and never sets it.
EnvKeepingLastName(e, in) == [e EXCEPT ![SecretKey] = SetTo(in.Name)]
EnvAfterProcess(e, in) == e

\* -------------------------------------------------------------------- main

Init ==
  /\ pc = "load"
  /\ env \in Environments
  /\ dotenv \in DotenvFiles
  /\ port = ""
  /\ routes = <<>>
  /\ log = <<>>
  /\ listenErr = ""
  /\ inflight = EmptyBag

\* Lines 85-88.
LoadDotenv ==
  /\ pc = "load"
  /\ env' = LoadedEnv(env, dotenv)
  /\ log' = IF LoadFails(dotenv) THEN Append(log, LoadWarning) ELSE log
  /\ pc' = PcAfterLoad(LoadFails(dotenv))
  /\ UNCHANGED <<dotenv, port, routes, listenErr, inflight>>

\* Lines 91-94.
GetPort ==
  /\ pc = "port"
  /\ port' = ResolvePort(env)
  /\ pc' = "config"
  /\ UNCHANGED <<env, dotenv, routes, log, listenErr, inflight>>

\* Lines 97-102.
GetAnotherConfig ==
  /\ pc = "config"
  /\ log' = Append(log, AnotherConfigLine(env))
  /\ pc' = "routes"
  /\ UNCHANGED <<env, dotenv, port, routes, listenErr, inflight>>

\* Lines 106-112.
HandleFuncs ==
  /\ pc = "routes"
  /\ routes' = [p \in Paths |-> IF p = "/health" THEN "healthHandler"
                                                 ELSE "processHandler"]
  /\ log' = Append(log, "Server starting on port " \o port \o "...")
  /\ pc' = "listen"
  /\ UNCHANGED <<env, dotenv, port, listenErr, inflight>>

\* Line 114: the listener is bound to the address and requests are served.
Listen ==
  /\ pc = "listen"
  /\ pc' = "serving"
  /\ UNCHANGED <<env, dotenv, port, routes, log, listenErr, inflight>>

\* Lines 114-116: ListenAndServe returns an error, at once when the address
\* cannot be bound, later when the listener fails; log.Fatalf logs it and
\* ends the process, and the calls in flight with it.
ListenAndServeFails ==
  /\ pc \in {"listen", "serving"}
  /\ \E e \in {"listen tcp " \o ListenAddr(port) \o ": bind: address already in use"} :
       /\ listenErr' = e
       /\ log' = Append(log, "Could not start server: " \o e)
  /\ pc' = "exited"
  /\ inflight' = EmptyBag
  /\ UNCHANGED <<env, dotenv, port, routes>>

\* ---------------------------------------------------------------- serving

\* The server reads a request and calls the handler registered for its path
\* in a goroutine of its own.
Serve(req) ==
  /\ pc = "serving"
  /\ BagCardinality(inflight) < MaxInFlight
  /\ req.path \in DOMAIN routes
  /\ inflight' = inflight (+) SetToBag({Invocation(req, routes[req.path])})
  /\ UNCHANGED <<pc, env, dotenv, port, routes, log, listenErr>>

\* healthHandler, lines 28-37.
healthHandler(inv) ==
  /\ inv.at = "healthHandler"
  /\ inflight' = Replace(inv, [inv EXCEPT
         !.resp = HealthReply(inv.req),
         !.logged = Append(@, "Health check successful"),
         !.at = "done"])
  /\ UNCHANGED <<pc, env, dotenv, port, routes, log, listenErr>>

\* processHandler, lines 42-45.
processCheckMethod(inv) ==
  /\ inv.at = "processHandler"
  /\ inflight' = Replace(inv,
       IF ~MethodAllowed(inv.req.method)
         THEN [inv EXCEPT
                 !.resp = HttpError("Only POST method is allowed",
                                    StatusMethodNotAllowed),
                 !.at = "done"]
         ELSE [inv EXCEPT !.at = "decode"])
  /\ UNCHANGED <<pc, env, dotenv, port, routes, log, listenErr>>

\* processHandler, lines 48-55: on an error the handler returns before the
\* defer of line 56 is reached.
processDecode(inv) ==
  /\ inv.at = "decode"
  /\ LET d == Decode(inv.req.body, inv.input)
     IN  inflight' = Replace(inv,
           IF d.err # ""
             THEN [inv EXCEPT
                     !.input = d.input,
                     !.err = d.err,
                     !.resp = HttpError("Invalid JSON input: " \o d.err,
                                        StatusBadRequest),
                     !.logged = Append(@, "Error decoding JSON: " \o d.err),
                     !.at = "done"]
             ELSE [inv EXCEPT !.input = d.input, !.at = "respond"])
  /\ UNCHANGED <<pc, env, dotenv, port, routes, log, listenErr>>

\* processHandler, lines 56-78; the deferred r.Body.Close() runs as the
\* handler returns.
processRespond(inv) ==
  /\ inv.at = "respond"
  /\ LET in == InputRead(inv, InFlight)
     IN  /\ inflight' = Replace(inv, [inv EXCEPT
               !.resp = ProcessReply(in, SecretMessage(env)),
               !.logged = @ \o <<"Received input: Name=" \o in.Name
                                    \o ", Value=" \o ToString(in.Value),
                                 "Processed input for " \o in.Name
                                    \o ", sent response.">>,
               !.closed = TRUE,
               !.at = "done"])
         /\ env' = EnvAfterProcess(env, in)
  /\ UNCHANGED <<pc, dotenv, port, routes, log, listenErr>>

\* The server ends a request whose handler has returned.
finishRequest(inv) ==
  /\ inv.at = "done"
  /\ inflight' = inflight (-) SetToBag({inv})
  /\ UNCHANGED <<pc, env, dotenv, port, routes, log, listenErr>>

Next ==
  \/ LoadDotenv
  \/ GetPort
  \/ GetAnotherConfig
  \/ HandleFuncs
  \/ Listen
  \/ ListenAndServeFails
  \/ \E req \in Requests : Serve(req)
  \/ \E inv \in InFlight : healthHandler(inv)
  \/ \E inv \in InFlight : processCheckMethod(inv)
  \/ \E inv \in InFlight : processDecode(inv)
  \/ \E inv \in InFlight : processRespond(inv)
  \/ \E inv \in InFlight : finishRequest(inv)

Spec == Init /\ [][Next]_vars

\* ------------------------------------------------------------- properties

\* What a request is answered when it is the only one the server handles:
\* the handler of its path run from its first line to its return.
ServedAlone(req, e) ==
  IF req.path = "/health" THEN HealthReply(req)
  ELSE IF ~MethodAllowed(req.method)
    THEN HttpError("Only POST method is allowed", StatusMethodNotAllowed)
  ELSE LET d == Decode(req.body, ZeroInput)
       IN  IF d.err # ""
             THEN HttpError("Invalid JSON input: " \o d.err, StatusBadRequest)
             ELSE ProcessReply(d.input, SecretMessage(e))

\* The state of the server that outlives a request.  The log is output.
ServerState == <<pc, env, dotenv, port, routes, listenErr>>

Member(resp, key) == ObjectOf(resp.body.members)[key]
IsProcessResponse(resp) ==
  /\ resp.body.kind = "json"
  /\ Keys(resp.body.members) =
       {"message", "received_name", "received_value", "secret_from_env"}

PostProcess(inv) == inv.req.path = "/process" /\ inv.req.method = MethodPost

\* The call inv takes a step of its handler in this transition.
Steps(inv) ==
  /\ inv \in InFlight
  /\ inv.at # "done"
  /\ CopiesIn(inv, inflight') < CopiesIn(inv, inflight)
  /\ pc' = pc

\* The bodies that decode, each with the name and the value it carries.
Carried ==
  {<<JsonBody(InputJson(n, v)), n, v>> : n \in Names, v \in Values}
    \cup {<<JsonBody(JObject(<<>>)), "", 0>>,
          <<JsonBody(JObject(<< <<"Name", JString("test")>>,
                                <<"note", JArray>>,
                                <<"value", JNull>> >>)), "test", 0>>}

\* C1: a POST to /process whose body decodes as {name, value} is answered
\* 200 with a ProcessResponse whose received_name is name, whose
\* received_value is value and whose message is
\* "Successfully processed input for <name>.".
C1_EchoesInput ==
  \A inv \in Done : \A c \in Carried :
    PostProcess(inv) /\ inv.req.body = c[1] =>
      /\ inv.resp.status = 200
      /\ IsProcessResponse(inv.resp)
      /\ Member(inv.resp, "received_name") = JString(c[2])
      /\ Member(inv.resp, "received_value") = JInt(c[3])
      /\ Member(inv.resp, "message") =
           JString("Successfully processed input for " \o c[2] \o ".")

C1_Witness ==
  /\ \E inv \in Done : PostProcess(inv) /\ inv.resp.status = 200
                         /\ inv.req.body = JsonBody(InputJson("test", 42))
  /\ \E inv \in Done : PostProcess(inv) /\ inv.resp.status = 200
                         /\ inv.req.body = JsonBody(InputJson("", 0))

\* C2: a request to /process whose method is not POST is answered 405 with
\* the text "Only POST method is allowed" whatever its body, and its body is
\* never decoded: the call never gets past the method check.
C2_MethodNotAllowed ==
  \A inv \in InFlight :
    inv.req.path = "/process" /\ inv.req.method # "POST" =>
      /\ inv.at \in {"processHandler", "done"}
      /\ inv.input = ZeroInput /\ inv.err = ""
      /\ inv.at = "done" =>
           /\ inv.resp.status = 405
           /\ inv.resp.body = TextLine("Only POST method is allowed")
      /\ inv.at # "done" => inv.resp = NoResponse

C2_Witness ==
  /\ \E inv \in Done : /\ inv.req.path = "/process" /\ inv.req.method = "GET"
                       /\ inv.req.body \in DecodableBodies
                       /\ inv.resp.status = 405
  /\ \E inv \in Done : /\ inv.req.path = "/process" /\ inv.req.method = "GET"
                       /\ inv.req.body \in UndecodableBodies
                       /\ inv.resp.status = 405

HasPrefix(str, prefix) ==
  Len(str) >= Len(prefix) /\ SubSeq(str, 1, Len(prefix)) = prefix

\* C3: a POST to /process whose body does not decode into ProcessInput is
\* answered 400 with a text that starts with "Invalid JSON input:", no
\* ProcessResponse is written, and the step that answers it leaves the
\* server's state as it was.
C3_BadRequest ==
  [][ /\ \A inv \in Done' :
           PostProcess(inv) /\ inv.req.body \in UndecodableBodies =>
             /\ inv.resp.status = 400
             /\ inv.resp.body.kind = "text"
             /\ HasPrefix(inv.resp.body.line, "Invalid JSON input:")
             /\ inv.resp.body.members = <<>>
      /\ \A inv \in InFlight :
           /\ Steps(inv) /\ inv.at = "decode"
           /\ inv.req.body \in UndecodableBodies
           => ServerState' = ServerState
    ]_vars

C3_Witness ==
  /\ \E inv \in Done : PostProcess(inv) /\ inv.resp.status = 400
                         /\ inv.req.body = TextBody("not json")
  /\ \E inv \in Done : PostProcess(inv) /\ inv.resp.status = 400
                         /\ inv.req.body.kind = "json"

\* C4: once decoding has been attempted, the handler has closed the body of
\* a POST to /process by the time it returns, whether decoding succeeded or
\* failed.
C4_BodyClosed ==
  \A inv \in Done : PostProcess(inv) => inv.closed

\* C5: in a 200 response of /process, secret_from_env is the value of
\* API_SECRET_MESSAGE when that is set and not empty, and the literal
\* "Default secret (env var not set)" when it is unset or empty, whatever the
\* name and the value of the request.
C5_SecretFromEnv ==
  \A inv \in Done :
    inv.req.path = "/process" /\ inv.resp.status = 200 =>
      Member(inv.resp, "secret_from_env") =
        JString(IF env["API_SECRET_MESSAGE"] \in {Unset, SetTo("")}
                  THEN "Default secret (env var not set)"
                  ELSE env["API_SECRET_MESSAGE"][1])

C5_Witness ==
  /\ env["API_SECRET_MESSAGE"] = SetTo("")
  /\ \E inv \in Done :
       /\ inv.req.path = "/process" /\ inv.resp.status = 200
       /\ inv.input.Name = "test"
       /\ Member(inv.resp, "secret_from_env") =
            JString("Default secret (env var not set)")

\* C6: whatever was served before, a request to /health, of any method and
\* with any body, is answered 200 with the JSON object
\* {"status":"ok","message":"API is healthy!"}, and the step that answers it
\* leaves the server's state as it was.
C6_HealthAlwaysOk ==
  [][ /\ \A inv \in Done' :
           inv.req.path = "/health" =>
             /\ inv.resp.status = 200
             /\ inv.resp.body.kind = "json"
             /\ ObjectOf(inv.resp.body.members) =
                  ObjectOf(<< <<"status", JString("ok")>>,
                              <<"message", JString("API is healthy!")>> >>)
      /\ \A inv \in InFlight :
           Steps(inv) /\ inv.at = "healthHandler" => ServerState' = ServerState
    ]_vars

C6_Witness ==
  /\ \E inv \in Done : inv.req.path = "/process" /\ inv.resp.status = 400
  /\ \E inv \in Done : /\ inv.req.path = "/health" /\ inv.req.method = "POST"
                       /\ inv.req.body = TextBody("not json")
                       /\ inv.resp.status = 200

\* C7: two identical requests to /process are answered alike, whatever was
\* served between them.  An answered request stays in flight until the
\* server ends it, so the first of the two is still to be seen when the
\* second is answered, after any requests the server handled in between.
C7_RepeatedRequestsAgree ==
  \A a, b \in Done :
    a.req.path = "/process" /\ a.req = b.req => a.resp = b.resp

C7_Witness ==
  \E inv \in Done : /\ PostProcess(inv) /\ inv.resp.status = 200
                    /\ inv.input.Name = "test"
                    /\ CopiesIn(inv, inflight) = 2

\* C8: however the steps of the calls in flight interleave, each request is
\* answered as it would be if it were served alone.
C8_AnsweredAsIfAlone ==
  \A inv \in Done : inv.resp = ServedAlone(inv.req, env)

C8_Witness ==
  \E a \in Done : \E b \in Running :
    /\ PostProcess(a) /\ a.resp.status = 200
    /\ b.at = "respond" /\ b.input # a.input

\* C9: the process ends only when ListenAndServe returns an error.  Every
\* step of the startup leads to the next, also when the .env file is missing
\* (a warning is logged), and a step that answers 400 or 405 leaves the
\* server serving.
C9_OnlyListenFailureIsFatal ==
  [][ /\ pc' = "exited" => pc \in {"listen", "serving"} /\ listenErr' # ""
      /\ pc = "load" => pc' = "port"
      /\ pc = "load" /\ dotenv = NoFile =>
           log' = <<"Warning: Could not load .env file. Using environment variables if set directly.">>
      /\ pc = "port" => pc' = "config"
      /\ pc = "config" => pc' = "routes"
      /\ pc = "routes" => pc' = "listen"
      /\ \A inv \in InFlight : \A new \in Done' :
           /\ Steps(inv) /\ new.req = inv.req
           /\ new.resp.status \in {400, 405}
           => pc' = "serving" /\ ServerState' = ServerState
    ]_vars

C9_Witness ==
  /\ pc = "serving"
  /\ dotenv = NoFile
  /\ \E inv \in Done : inv.resp.status = 400
  /\ \E inv \in Running : inv.at = "respond"

\* C10: the port is the value of APP_PORT when that is not empty and "8080"
\* when it is unset or empty, and neither the port nor any response changes
\* with ANOTHER_CONFIG_VALUE.
C10_PortResolution ==
  pc \notin {"load", "port"} =>
    /\ port = IF env["APP_PORT"] \in {Unset, SetTo("")}
                THEN "8080" ELSE env["APP_PORT"][1]
    /\ \A a \in {Unset, SetTo(""), SetTo("extra"), SetTo("9090")} :
         LET other == [env EXCEPT !["ANOTHER_CONFIG_VALUE"] = a]
         IN  /\ ResolvePort(other) = port
             /\ \A inv \in Done : ServedAlone(inv.req, other) = inv.resp

C10_Witness ==
  /\ pc = "serving"
  /\ env["APP_PORT"] = SetTo("")
  /\ env["ANOTHER_CONFIG_VALUE"] = SetTo("extra")
  /\ port = "8080"
  /\ \E inv \in Done : inv.resp.status = 200

====
